---- MODULE Spec2Model ----
(***************************************************************************)
(* Model of the Keysafe ink! contract (src/ink/lib2.rs): the KeyLedger     *)
(* storage (balances, nodes, users, recoveries) and its messages           *)
(* transfer, register_node, register_user, start_recovery and              *)
(* finish_recovery.  Every message is one atomic step: the host runs a     *)
(* call to completion, and a trapped call (a Rust panic) persists nothing. *)
(***************************************************************************)
EXTENDS Integers, FiniteSets, Sequences, TLC

(* ------------------------------ bounds -------------------------------- *)

\* The account identities (AccountId) of the model.
Ids == {"a", "b", "c", "d"}

\* The caller of the constructor.
Deployer == "a"

\* The identities that call register_user, and the identities they may name
\* as custodians (node1_id, node2_id, node3_id).
UserCallers == {"a"}
CustodianIds == {"b", "c", "d"}

\* The identities that call register_node, and the public keys they pass.
NodeCallers == {"b"}
PubKeys == {"k1", "k2"}

\* The public key and the condition codes passed to register_user.
UserPubKeys == {"pkA"}
CondTypes == {0}

\* The proof strings passed to finish_recovery, and the identities the
\* callers name as its user: one that registers and one that never does.
Proofs == {"p1", "p2"}
FinishUsers == {"a", "b"}

\* The identities that call transfer and that they name as recipients.
TransferParties == {"a", "b"}

\* Balance is an unsigned integer type; BalanceModulus stands for 2^128,
\* the number of values of the type.  It leaves room above InitialSupply, as
\* 2^128 does above any supply but the largest.
BalanceModulus == 5

\* The supply passed to the constructor.
InitialSupply == 3

\* What an arithmetic overflow does depends on the build: with overflow
\* checks the call panics (and the host reverts it), without them the
\* result wraps.  A call that does not overflow runs the same either way.
OverflowModes == {"panic", "wrap"}
ModesOf(overflow) == IF overflow THEN OverflowModes ELSE {"wrap"}

(* --------------------------- program constants ------------------------ *)

\* start_recovery needs a balance of at least 3.
MIN_START_BALANCE == 3

\* finish_recovery finalizes at 2 confirmations.
CONFIRM_THRESHOLD == 2

\* finish_recovery pays 1 unit to each custodian.
PAYOUT == 1

\* Recovery.status: 0 for not started, 1 for started, 2 for finished.
STATUS_IDLE == 0
STATUS_ACTIVE == 1
STATUS_FINALIZED == 2

(* ------------------------------- state -------------------------------- *)

VARIABLES
    total_supply,   \* KeyLedger.total_supply
    balances,       \* KeyLedger.balances, read through balance_of (absent = 0)
    nodes,          \* KeyLedger.nodes: AccountId -> Option<Node>
    users,          \* KeyLedger.users: AccountId -> Option<User>
    recoveries,     \* KeyLedger.recoveries: AccountId -> Option<Recovery>
    last            \* the last message executed: its name, caller and arguments

vars == <<total_supply, balances, nodes, users, recoveries, last>>

\* Option<T>, as Mapping::get returns it.
None == [some |-> FALSE]
Some(v) == [some |-> TRUE, val |-> v]

\* struct Node
Node(nid, pubk) == [nid |-> nid, pubk |-> pubk]

\* struct User
User(uid, pubk, c1, n1, c2, n2, c3, n3) ==
    [uid |-> uid, pubk |-> pubk,
     node1_cond_type |-> c1, node1_id |-> n1,
     node2_cond_type |-> c2, node2_id |-> n2,
     node3_cond_type |-> c3, node3_id |-> n3]

\* struct Recovery
Recovery(status, uid, r_times, p1, f1, p2, f2, p3, f3) ==
    [status |-> status, uid |-> uid, r_times |-> r_times,
     recovery1_proof |-> p1, node1_confirm |-> f1,
     recovery2_proof |-> p2, node2_confirm |-> f2,
     recovery3_proof |-> p3, node3_confirm |-> f3]

\* The record of the last message: its name, its caller, the tuple of its
\* arguments, pre, the status before the call of the session the message
\* is about (-1 when there is none), and ret, what the caller gets back:
\* the message's return value, or "trap" when the call panicked.
Call(op, caller, args, pre, ret) ==
    [op |-> op, caller |-> caller, args |-> args, pre |-> pre, ret |-> ret]

\* The return value of a message declared without a return type.
Unit == "()"

\* The status of the stored session of id, -1 when there is none.
StatusOf(recs, id) ==
    IF recs[id].some THEN recs[id].val.status ELSE -1

(* ---------------------------- constructor ----------------------------- *)

\* Init as it would be if new_init did not store the supply.
Init_SupplyUnset ==
    /\ total_supply = 0
    /\ balances = [i \in Ids |-> IF i = Deployer THEN InitialSupply ELSE 0]
    /\ nodes = [i \in Ids |-> None]
    /\ users = [i \in Ids |-> None]
    /\ recoveries = [i \in Ids |-> None]
    /\ last = Call("new", Deployer, <<InitialSupply>>, -1, Unit)

\* new / new_init: the caller receives the whole supply.
Init ==
    /\ total_supply = InitialSupply
    /\ balances = [i \in Ids |-> IF i = Deployer THEN InitialSupply ELSE 0]
    /\ nodes = [i \in Ids |-> None]
    /\ users = [i \in Ids |-> None]
    /\ recoveries = [i \in Ids |-> None]
    /\ last = Call("new", Deployer, <<InitialSupply>>, -1, Unit)

(* ------------------------------ ledger -------------------------------- *)

\* balance_of: 0 for an identity with no entry.
balance_of(b, owner) == b[owner]

\* The two balance updates shared by transfer and transfer_from_to (lines
\* 115-117 and 129-131): overflow tells whether the subtraction or the
\* addition left the range of Balance, balances is the wrapped result.
MoveBalance(b, from, to, value) ==
    LET from_balance == balance_of(b, from)
        b1 == [b EXCEPT ![from] = (from_balance - value) % BalanceModulus]
        to_balance == balance_of(b1, to)
        b2 == [b1 EXCEPT ![to] = (to_balance + value) % BalanceModulus]
    IN  [overflow |-> from_balance - value < 0 \/ to_balance + value >= BalanceModulus,
         balances |-> b2]

\* transfer_from_to: the checked transfer.
transfer_from_to(b, from, to, value) ==
    IF balance_of(b, from) < value
    THEN [result |-> "InsufficientBalance", overflow |-> FALSE, balances |-> b]
    ELSE LET m == MoveBalance(b, from, to, value)
         IN  [result |-> "Ok", overflow |-> m.overflow, balances |-> m.balances]

\* transfer: the public message, with no balance check.
transfer(from, to, value, mode) ==
    LET m == MoveBalance(balances, from, to, value)
    IN  /\ balances' = IF m.overflow /\ mode = "panic" THEN balances ELSE m.balances
        /\ last' = Call("transfer", from, <<to, value>>, -1,
                        IF m.overflow /\ mode = "panic" THEN "trap" ELSE "Ok")
        /\ UNCHANGED <<total_supply, nodes, users, recoveries>>

(* --------------------------- node registry ---------------------------- *)

\* register_node as it would be without the match on the stored node: every
\* call inserts.
register_node_Overwrites(sender, pubk) ==
    /\ nodes' = [nodes EXCEPT ![sender] = Some(Node(sender, pubk))]
    /\ last' = Call("register_node", sender, <<pubk>>, -1, Unit)
    /\ UNCHANGED <<total_supply, balances, users, recoveries>>

register_node(sender, pubk) ==
    /\ nodes' = IF nodes[sender].some
                THEN nodes
                ELSE [nodes EXCEPT ![sender] = Some(Node(sender, pubk))]
    /\ last' = Call("register_node", sender, <<pubk>>, -1, Unit)
    /\ UNCHANGED <<total_supply, balances, users, recoveries>>

(* --------------------------- user registry ---------------------------- *)

\* register_user as it would be if it kept the session of a user that has
\* one and created a session only for a new user.
register_user_KeepsSession(sender, pubk, c1, n1, c2, n2, c3, n3) ==
    /\ users' = [users EXCEPT ![sender] = Some(User(sender, pubk, c1, n1, c2, n2, c3, n3))]
    /\ recoveries' = IF recoveries[sender].some
                     THEN recoveries
                     ELSE [recoveries EXCEPT ![sender] =
                              Some(Recovery(STATUS_IDLE, sender, 0, "", 0, "", 0, "", 0))]
    /\ last' = Call("register_user", sender, <<pubk, c1, n1, c2, n2, c3, n3>>,
                    StatusOf(recoveries, sender), Unit)
    /\ UNCHANGED <<total_supply, balances, nodes>>

register_user(sender, pubk, c1, n1, c2, n2, c3, n3) ==
    /\ users' = [users EXCEPT ![sender] = Some(User(sender, pubk, c1, n1, c2, n2, c3, n3))]
    /\ recoveries' = [recoveries EXCEPT ![sender] =
                         Some(Recovery(STATUS_IDLE, sender, 0, "", 0, "", 0, "", 0))]
    /\ last' = Call("register_user", sender, <<pubk, c1, n1, c2, n2, c3, n3>>,
                    StatusOf(recoveries, sender), Unit)
    /\ UNCHANGED <<total_supply, balances, nodes>>

(* ------------------------ recovery state machine ---------------------- *)

\* StartedSession as it would be with the status left as it was.
StartedSession_KeepsStatus(recovery_info) ==
    IF recovery_info.some
    THEN LET r == recovery_info.val
         IN  Some([r EXCEPT !.recovery1_proof = "", !.node1_confirm = 0,
                            !.recovery2_proof = "", !.node2_confirm = 0,
                            !.recovery3_proof = "", !.node3_confirm = 0])
    ELSE None

\* StartedSession as it would be with the status of a finished round (2)
\* written for the status of a started one (1).
StartedSession_WrongStatus(recovery_info) ==
    IF recovery_info.some
    THEN LET r == recovery_info.val
         IN  Some([r EXCEPT !.status = STATUS_FINALIZED,
                            !.recovery1_proof = "", !.node1_confirm = 0,
                            !.recovery2_proof = "", !.node2_confirm = 0,
                            !.recovery3_proof = "", !.node3_confirm = 0])
    ELSE None

\* StartedSession as it would be if rounds were counted when they start.
StartedSession_CountsRound(recovery_info) ==
    IF recovery_info.some
    THEN LET r == recovery_info.val
         IN  Some([r EXCEPT !.status = STATUS_ACTIVE, !.r_times = r.r_times + 1,
                            !.recovery1_proof = "", !.node1_confirm = 0,
                            !.recovery2_proof = "", !.node2_confirm = 0,
                            !.recovery3_proof = "", !.node3_confirm = 0])
    ELSE None

\* start_recovery, lines 203-218: the session the call stores, None when it
\* stores nothing.
StartedSession(recovery_info) ==
    IF recovery_info.some
    THEN LET r == recovery_info.val
         IN  Some([r EXCEPT !.status = STATUS_ACTIVE,
                            !.recovery1_proof = "", !.node1_confirm = 0,
                            !.recovery2_proof = "", !.node2_confirm = 0,
                            !.recovery3_proof = "", !.node3_confirm = 0])
    ELSE None

\* StartGuardFails as it would be with the reserve off by one.
StartGuardFails_OffByOne(balance) == balance < MIN_START_BALANCE - 1

\* start_recovery, line 200: not enough balance to start a recovery.
StartGuardFails(balance) == balance < MIN_START_BALANCE

\* start_recovery as it would be if a caller with no session were given a
\* fresh Active one.
start_recovery_CreatesSession(sender) ==
    LET balance == balance_of(balances, sender)
        r1 == StartedSession(recoveries[sender])
        fresh == Some(Recovery(STATUS_ACTIVE, sender, 0, "", 0, "", 0, "", 0))
    IN  /\ recoveries' = IF StartGuardFails(balance)
                         THEN recoveries
                         ELSE [recoveries EXCEPT ![sender] = IF r1.some THEN r1 ELSE fresh]
        /\ last' = Call("start_recovery", sender, <<>>, StatusOf(recoveries, sender), Unit)
        /\ UNCHANGED <<total_supply, balances, nodes, users>>

\* start_recovery as it would be if it debited the 3-unit reserve.
start_recovery_LocksReserve(sender) ==
    LET balance == balance_of(balances, sender)
        r1 == StartedSession(recoveries[sender])
        started == ~StartGuardFails(balance) /\ r1.some
    IN  /\ recoveries' = IF started THEN [recoveries EXCEPT ![sender] = r1] ELSE recoveries
        /\ balances' = IF started
                       THEN [balances EXCEPT ![sender] = balance - MIN_START_BALANCE]
                       ELSE balances
        /\ last' = Call("start_recovery", sender, <<>>, StatusOf(recoveries, sender), Unit)
        /\ UNCHANGED <<total_supply, nodes, users>>

start_recovery(sender) ==
    LET balance == balance_of(balances, sender)
        r1 == StartedSession(recoveries[sender])
    IN  /\ recoveries' = IF StartGuardFails(balance) \/ ~r1.some
                         THEN recoveries
                         ELSE [recoveries EXCEPT ![sender] = r1]
        /\ last' = Call("start_recovery", sender, <<>>, StatusOf(recoveries, sender), Unit)
        /\ UNCHANGED <<total_supply, balances, nodes, users>>

\* Confirm as it would be with three separate ifs: every slot the caller is
\* assigned to is set.
Confirm_EveryMatch(u, r, sender, proof) ==
    LET ra == IF u.node1_id = sender
              THEN [r EXCEPT !.node1_confirm = 1, !.recovery1_proof = proof] ELSE r
        rb == IF u.node2_id = sender
              THEN [ra EXCEPT !.node2_confirm = 1, !.recovery2_proof = proof] ELSE ra
    IN  IF u.node3_id = sender
        THEN [rb EXCEPT !.node3_confirm = 1, !.recovery3_proof = proof] ELSE rb

\* finish_recovery, lines 233-243: the local copy r of the session after the
\* caller is matched against the three custodians, first match only.
Confirm(u, r, sender, proof) ==
    IF u.node1_id = sender
    THEN [r EXCEPT !.node1_confirm = 1, !.recovery1_proof = proof]
    ELSE IF u.node2_id = sender
    THEN [r EXCEPT !.node2_confirm = 1, !.recovery2_proof = proof]
    ELSE IF u.node3_id = sender
    THEN [r EXCEPT !.node3_confirm = 1, !.recovery3_proof = proof]
    ELSE r

\* ThresholdReached as it would be with the comparison inverted.
ThresholdReached_Inverted(r) ==
    r.node1_confirm + r.node2_confirm + r.node3_confirm < CONFIRM_THRESHOLD

\* finish_recovery, lines 245-246.
ThresholdReached(r) ==
    r.node1_confirm + r.node2_confirm + r.node3_confirm >= CONFIRM_THRESHOLD

\* finish_recovery, lines 247-255: the finalized session is stored, then the
\* three payouts run in order, each one's Result dropped.
Finalize(b, u, r, user) ==
    LET r1 == [r EXCEPT !.r_times = r.r_times + 1, !.status = STATUS_FINALIZED]
        t1 == transfer_from_to(b, user, u.node1_id, PAYOUT)
        t2 == transfer_from_to(t1.balances, user, u.node2_id, PAYOUT)
        t3 == transfer_from_to(t2.balances, user, u.node3_id, PAYOUT)
    IN  [overflow |-> t1.overflow \/ t2.overflow \/ t3.overflow,
         recovery |-> r1,
         balances |-> t3.balances]

\* finish_recovery: what the call stores.  stored is FALSE when the call
\* returns without an insert: the local copy r is then dropped.
FinishOutcome(b, user_info, recovery_info, sender, user, proof) ==
    IF ~user_info.some \/ ~recovery_info.some
    THEN [stored |-> FALSE]
    ELSE LET u == user_info.val
             r0 == recovery_info.val
         IN  IF r0.status # STATUS_ACTIVE
             THEN [stored |-> FALSE]
             ELSE LET r == Confirm(u, r0, sender, proof)
                  IN  IF ThresholdReached(r)
                      THEN LET f == Finalize(b, u, r, user)
                           IN  [stored |-> TRUE, overflow |-> f.overflow,
                                recovery |-> f.recovery, balances |-> f.balances]
                      ELSE [stored |-> FALSE]

\* Whether the payouts of this call overflow a balance.
FinishOverflows(sender, user, proof) ==
    LET o == FinishOutcome(balances, users[user], recoveries[user], sender, user, proof)
    IN  o.stored /\ o.overflow

finish_recovery(sender, user, proof, mode) ==
    LET o == FinishOutcome(balances, users[user], recoveries[user], sender, user, proof)
        commit == o.stored /\ ~(o.overflow /\ mode = "panic")
    IN  /\ recoveries' = IF commit
                         THEN [recoveries EXCEPT ![user] = Some(o.recovery)]
                         ELSE recoveries
        /\ balances' = IF commit THEN o.balances ELSE balances
        /\ last' = Call("finish_recovery", sender, <<user, proof>>, StatusOf(recoveries, user),
                        IF o.stored /\ o.overflow /\ mode = "panic" THEN "trap" ELSE Unit)
        /\ UNCHANGED <<total_supply, nodes, users>>

(* --------------------------- specification ---------------------------- *)

Transfer ==
    \E from \in TransferParties, to \in TransferParties, value \in 0..(BalanceModulus - 1) :
        \E mode \in ModesOf(MoveBalance(balances, from, to, value).overflow) :
            transfer(from, to, value, mode)

RegisterNode ==
    \E sender \in NodeCallers, pubk \in PubKeys : register_node(sender, pubk)

RegisterUser ==
    \E sender \in UserCallers, pubk \in UserPubKeys,
       c1 \in CondTypes, c2 \in CondTypes, c3 \in CondTypes,
       n1 \in CustodianIds, n2 \in CustodianIds, n3 \in CustodianIds :
        register_user(sender, pubk, c1, n1, c2, n2, c3, n3)

StartRecovery ==
    \E sender \in Ids : start_recovery(sender)

FinishRecovery ==
    \E sender \in Ids, user \in FinishUsers, proof \in Proofs :
        \E mode \in ModesOf(FinishOverflows(sender, user, proof)) :
            finish_recovery(sender, user, proof, mode)

Next ==
    \/ Transfer
    \/ RegisterNode
    \/ RegisterUser
    \/ StartRecovery
    \/ FinishRecovery

Spec == Init /\ [][Next]_vars

(* ------------------------ vocabulary of the claims -------------------- *)

\* The three custodians assigned by a user record, and whether they are
\* three distinct identities.
Custodians(u) == {u.node1_id, u.node2_id, u.node3_id}
DistinctCustodians(u) == Cardinality(Custodians(u)) = 3

\* The confirmation flag and the proof of slot k of a session.
FlagOf(r, k) ==
    IF k = 1 THEN r.node1_confirm ELSE IF k = 2 THEN r.node2_confirm ELSE r.node3_confirm
ProofOf(r, k) ==
    IF k = 1 THEN r.recovery1_proof ELSE IF k = 2 THEN r.recovery2_proof ELSE r.recovery3_proof
NodeOf(u, k) ==
    IF k = 1 THEN u.node1_id ELSE IF k = 2 THEN u.node2_id ELSE u.node3_id
Slots == {1, 2, 3}

\* The number of confirmation flags a session has set.
ConfirmCount(r) == Cardinality({k \in Slots : FlagOf(r, k) # 0})

\* The step is (was) a call of finish_recovery by sender for user.
FinishStep(sender, user) ==
    /\ last'.op = "finish_recovery"
    /\ last'.caller = sender
    /\ last'.args[1] = user
FinishedLast(sender, user) ==
    /\ last.op = "finish_recovery"
    /\ last.caller = sender
    /\ last.args[1] = user

\* The step is a call of start_recovery by sender.
StartStep(sender) ==
    /\ last'.op = "start_recovery"
    /\ last'.caller = sender

\* The contract's storage.
storage == <<total_supply, balances, nodes, users, recoveries>>

(* ------------------------------- claims ------------------------------- *)

\* C1: for a registered user whose session is Active and whose three
\* custodians are distinct, when two of the custodians each call
\* finish_recovery for the user, one right after the other, the session is
\* Finalized after the second call and r_times is 1 greater than before.
C1_TwoConfirmationsFinalize ==
    [][\A u \in FinishUsers, c1 \in Ids, c2 \in Ids :
          ( /\ FinishedLast(c1, u)
            /\ last.pre = STATUS_ACTIVE
            /\ users[u].some
            /\ recoveries[u].some
            /\ DistinctCustodians(users[u].val)
            /\ c1 \in Custodians(users[u].val)
            /\ c2 \in Custodians(users[u].val)
            /\ c1 # c2
            /\ FinishStep(c2, u) )
          => /\ recoveries'[u].val.status = STATUS_FINALIZED
             /\ recoveries'[u].val.r_times = recoveries[u].val.r_times + 1]_vars

C3_FirstConfirmationIsStored ==
    \A u \in FinishUsers, k \in Slots :
        ( /\ last.op = "finish_recovery"
          /\ last.args[1] = u
          /\ last.pre = STATUS_ACTIVE
          /\ users[u].some
          /\ recoveries[u].some
          /\ DistinctCustodians(users[u].val)
          /\ NodeOf(users[u].val, k) = last.caller )
        => LET r == recoveries[u].val
           IN  /\ r.status = STATUS_ACTIVE
               /\ FlagOf(r, k) = 1
               /\ ProofOf(r, k) = last.args[2]
               /\ \A j \in Slots \ {k} : FlagOf(r, j) = 0 /\ ProofOf(r, j) = ""

\* C4: when the same assigned custodian confirms an Active round twice, the
\* second time with a different proof, the stored session counts exactly one
\* confirmation, is not finalized, and the custodian's slot holds the proof
\* submitted last.
C4_ReconfirmationReplacesProof ==
    [][\A u \in FinishUsers, c \in Ids, k \in Slots :
          ( /\ FinishedLast(c, u)
            /\ last.pre = STATUS_ACTIVE
            /\ users[u].some
            /\ recoveries[u].some
            /\ DistinctCustodians(users[u].val)
            /\ NodeOf(users[u].val, k) = c
            /\ FinishStep(c, u)
            /\ last'.args[2] # last.args[2] )
          => LET r == recoveries'[u].val
             IN  /\ r.status = STATUS_ACTIVE
                 /\ ConfirmCount(r) = 1
                 /\ FlagOf(r, k) = 1
                 /\ ProofOf(r, k) = last'.args[2]]_vars

\* C5: a finish_recovery call for a registered user by a caller that is none
\* of the user's three custodians changes no session, no user record and no
\* balance.
C5_UnauthorizedConfirmerInert ==
    [][\A u \in FinishUsers, s \in Ids :
          ( /\ FinishStep(s, u)
            /\ users[u].some
            /\ s \notin Custodians(users[u].val) )
          => UNCHANGED storage]_vars

\* C5 happens: a caller that is no custodian of the user has called
\* finish_recovery for a user whose round was Active.
C5_Witness ==
    /\ last.op = "finish_recovery"
    /\ last.pre = STATUS_ACTIVE
    /\ users[last.args[1]].some
    /\ last.caller \notin Custodians(users[last.args[1]].val)

\* C6: start_recovery called by an identity whose balance is less than 3
\* changes nothing, whatever the status of the caller's session.
C6_StartGuard ==
    [][\A s \in Ids :
          (StartStep(s) /\ balance_of(balances, s) < 3) => UNCHANGED storage]_vars

\* C6 happens: an identity holding less than 3 units has called
\* start_recovery while its session was Active.
C6_Witness ==
    /\ last.op = "start_recovery"
    /\ last.pre = STATUS_ACTIVE
    /\ balance_of(balances, last.caller) < 3

C8_InactiveOrAbsentIsNoOp ==
    [][/\ \A u \in FinishUsers, s \in Ids :
              ( /\ FinishStep(s, u)
                /\ \/ ~users[u].some
                   \/ ~recoveries[u].some
                   \/ StatusOf(recoveries, u) # STATUS_ACTIVE )
              => UNCHANGED storage
       /\ \A s \in Ids :
              (StartStep(s) /\ ~recoveries[s].some) => UNCHANGED storage]_vars

\* C8 happens for start_recovery: an identity that holds at least 3 units
\* and has no session has called it.
C8_WitnessStart ==
    /\ last.op = "start_recovery"
    /\ last.pre = -1
    /\ ~recoveries[last.caller].some
    /\ balance_of(balances, last.caller) >= 3

\* C8 happens for finish_recovery: an assigned custodian has called it for a
\* user whose session was Idle.
C8_Witness ==
    /\ last.op = "finish_recovery"
    /\ last.pre = STATUS_IDLE
    /\ users[last.args[1]].some
    /\ last.caller \in Custodians(users[last.args[1]].val)

\* C9: the first register_node by an identity stores its id and the public
\* key passed, and a stored node record never changes: any later
\* register_node by the identity, with any public key, and any other
\* message leave the record as the first call stored it.
C9_NodeWriteOnce ==
    [][\A i \in Ids :
          /\ nodes[i].some => nodes'[i] = nodes[i]
          /\ (~nodes[i].some /\ last'.op = "register_node" /\ last'.caller = i)
             => nodes'[i] = Some(Node(i, last'.args[1]))
          /\ (~nodes[i].some /\ ~(last'.op = "register_node" /\ last'.caller = i))
             => ~nodes'[i].some]_vars

\* C9 happens: an identity with a stored node has called register_node with
\* a public key other than the stored one.
C9_Witness ==
    /\ last.op = "register_node"
    /\ nodes[last.caller].some
    /\ nodes[last.caller].val.nid = last.caller
    /\ nodes[last.caller].val.pubk # last.args[1]

\* C10: right after register_user by an identity, its session is Idle with
\* r_times 0, the three proofs empty and the three flags unset, and its user
\* record holds the three custodian assignments passed in the call.
C10_RegisterUserFreshSession ==
    last.op = "register_user"
    => LET U == last.caller
       IN  /\ recoveries[U].some
           /\ recoveries[U].val.status = STATUS_IDLE
           /\ recoveries[U].val.r_times = 0
           /\ \A k \in Slots : /\ FlagOf(recoveries[U].val, k) = 0
                               /\ ProofOf(recoveries[U].val, k) = ""
           /\ users[U].some
           /\ users[U].val.uid = U
           /\ users[U].val.pubk = last.args[1]
           /\ users[U].val.node1_cond_type = last.args[2]
           /\ users[U].val.node1_id = last.args[3]
           /\ users[U].val.node2_cond_type = last.args[4]
           /\ users[U].val.node2_id = last.args[5]
           /\ users[U].val.node3_cond_type = last.args[6]
           /\ users[U].val.node3_id = last.args[7]

\* C10 happens: a user whose session was Active has called register_user.
C10_Witness ==
    /\ last.op = "register_user"
    /\ last.pre = STATUS_ACTIVE

\* The sum of the balances of a set of identities.
RECURSIVE SumOver(_, _)
SumOver(b, S) ==
    IF S = {} THEN 0
    ELSE LET i == CHOOSE x \in S : TRUE
         IN  b[i] + SumOver(b, S \ {i})

\* C11: the checked transfer returns InsufficientBalance and leaves every
\* balance as it was when the balance of from is less than the amount;
\* otherwise it returns Ok, decreases the balance of from by the amount and
\* increases the balance of to by the amount (no net change when from = to),
\* and leaves every other balance unchanged.  Stated of transfer_from_to
\* applied to the balances of every reachable state.
C11_CheckedTransfer ==
    \A from \in Ids, to \in Ids, value \in 0..(BalanceModulus - 1) :
        LET t == transfer_from_to(balances, from, to, value)
        IN  IF balance_of(balances, from) < value
            THEN /\ t.result = "InsufficientBalance"
                 /\ t.balances = balances
            ELSE /\ t.result = "Ok"
                 /\ from # to =>
                       /\ t.balances[from] = balances[from] - value
                       /\ t.balances[to] = balances[to] + value
                 /\ from = to => t.balances[from] = balances[from]
                 /\ \A i \in Ids \ {from, to} : t.balances[i] = balances[i]

\* C12: total_supply is the supply passed to the constructor in every
\* reachable state, whatever messages have run, and right after the
\* constructor the deployer's balance is that supply and every other
\* identity's balance reads 0.
C12_TotalSupplyFixed ==
    /\ total_supply = InitialSupply
    /\ last.op = "new" =>
          /\ last.args[1] = total_supply
          /\ balance_of(balances, Deployer) = total_supply
          /\ \A i \in Ids \ {Deployer} : balance_of(balances, i) = 0

\* C12 happens: messages have run and moved the deployer's balance, and the
\* supply reads as the constructor set it.
C12_Witness ==
    /\ last.op = "transfer"
    /\ last.ret = "Ok"
    /\ balance_of(balances, Deployer) # InitialSupply
    /\ users[Deployer].some
    /\ nodes["b"].some
    /\ StatusOf(recoveries, Deployer) = STATUS_ACTIVE
    /\ total_supply = InitialSupply

\* C13: every balance is at least 0 and at most the total supply in every
\* reachable state, also after transfer is called with a value greater than
\* the caller's balance.
C13_BalancesWithinSupply ==
    \A i \in Ids : balance_of(balances, i) >= 0 /\ balance_of(balances, i) <= total_supply

\* C17: the balances sum to the total supply in every reachable state.
C17_SupplyConserved ==
    SumOver(balances, Ids) = total_supply
\* C14: when a round reaches its threshold (the second of two distinct
\* custodians' confirmations of an Active round) while the user holds less
\* than the 3 units of the payout, the call surfaces InsufficientBalance and
\* persists nothing: the session is not Finalized, r_times is not
\* incremented and no custodian is paid.
C14_FailedPayoutSurfacesError ==
    [][\A u \in FinishUsers, c1 \in Ids, c2 \in Ids :
          ( /\ FinishedLast(c1, u)
            /\ last.pre = STATUS_ACTIVE
            /\ users[u].some
            /\ recoveries[u].some
            /\ DistinctCustodians(users[u].val)
            /\ u \notin Custodians(users[u].val)
            /\ c1 \in Custodians(users[u].val)
            /\ c2 \in Custodians(users[u].val)
            /\ c1 # c2
            /\ balance_of(balances, u) < 3
            /\ FinishStep(c2, u) )
          => /\ last'.ret = "InsufficientBalance"
             /\ UNCHANGED storage]_vars

\* C14, of lines 247-255 alone: applied to the balances and the user record
\* of any reachable state, the finalizing branch pays no custodian when one
\* of its three transfers returns InsufficientBalance.
C14_PayoutAllOrNothing ==
    \A user \in FinishUsers :
        (users[user].some /\ recoveries[user].some /\ balance_of(balances, user) < 3)
        => Finalize(balances, users[user].val, recoveries[user].val, user).balances = balances
\* C15: a session's status is always 0, 1 or 2, a session once stored stays
\* stored, and a status changes only in these steps: to Active (from Idle or
\* Finalized) by the user's start_recovery, from Active to Finalized by a
\* finish_recovery for the user, and to Idle by the user's register_user.
C15_StatusTransitions ==
    [][\A u \in Ids :
          LET s0 == StatusOf(recoveries, u)
              s1 == StatusOf(recoveries', u)
          IN  /\ recoveries[u].some => recoveries'[u].some
              /\ recoveries'[u].some =>
                    s1 \in {STATUS_IDLE, STATUS_ACTIVE, STATUS_FINALIZED}
              /\ s1 # s0 =>
                    \/ /\ s1 = STATUS_ACTIVE
                       /\ s0 \in {STATUS_IDLE, STATUS_FINALIZED}
                       /\ StartStep(u)
                    \/ /\ s1 = STATUS_FINALIZED
                       /\ s0 = STATUS_ACTIVE
                       /\ last'.op = "finish_recovery"
                       /\ last'.args[1] = u
                    \/ /\ s1 = STATUS_IDLE
                       /\ last'.op = "register_user"
                       /\ last'.caller = u]_vars

\* C15 happens: a user holding at least 3 units has called start_recovery on
\* an Active session, which is Active again.
C15_Witness ==
    /\ last.op = "start_recovery"
    /\ last.pre = STATUS_ACTIVE
    /\ balance_of(balances, last.caller) >= 3
    /\ StatusOf(recoveries, last.caller) = STATUS_ACTIVE

\* C16: r_times of a stored session never decreases in any step, and it
\* changes only in a step that sets the status to Finalized, where it
\* increases by exactly 1.
C16_CompletionsMonotonic ==
    [][\A u \in Ids :
          (recoveries[u].some /\ recoveries'[u].some)
          => LET n0 == recoveries[u].val.r_times
                 n1 == recoveries'[u].val.r_times
             IN  /\ n1 >= n0
                 /\ n1 # n0 => /\ recoveries'[u].val.status = STATUS_FINALIZED
                               /\ n1 = n0 + 1]_vars

\* C16 happens: a user with a stored session has called register_user again,
\* after a round was started, and r_times reads 0 as before.
C16_Witness ==
    /\ last.op = "register_user"
    /\ last.pre \in {STATUS_IDLE, STATUS_ACTIVE}
    /\ balance_of(balances, last.caller) < 3
    /\ recoveries[last.caller].val.r_times = 0

\* C18: every stored session has flags that are 0 or 1 and a non-empty proof
\* only in a slot whose flag is set; an Idle session has no flag set and
\* empty proofs, an Active session at most one flag set, a Finalized session
\* exactly two.
C18_SessionShape ==
    \A u \in Ids :
        recoveries[u].some
        => LET r == recoveries[u].val
           IN  /\ \A k \in Slots : /\ FlagOf(r, k) \in {0, 1}
                                   /\ ProofOf(r, k) # "" => FlagOf(r, k) = 1
               /\ r.status = STATUS_IDLE =>
                     /\ ConfirmCount(r) = 0
                     /\ \A k \in Slots : ProofOf(r, k) = ""
               /\ r.status = STATUS_ACTIVE => ConfirmCount(r) <= 1
               /\ r.status = STATUS_FINALIZED => ConfirmCount(r) = 2

\* C18 happens: an assigned custodian has confirmed an Active round, and the
\* session is stored Active.
C18_Witness ==
    /\ last.op = "finish_recovery"
    /\ last.pre = STATUS_ACTIVE
    /\ users[last.args[1]].some
    /\ DistinctCustodians(users[last.args[1]].val)
    /\ last.caller \in Custodians(users[last.args[1]].val)
    /\ StatusOf(recoveries, last.args[1]) = STATUS_ACTIVE

\* The slots of a user record that are assigned to an identity.
SlotsOf(u, id) == {k \in Slots : NodeOf(u, k) = id}

\* C19: a finish_recovery call by an identity assigned to two or three of the
\* user's slots, made while no slot of another identity is confirmed, does
\* not finalize the round and pays nothing.
C19_OneIdentityCannotFinalize ==
    [][\A u \in FinishUsers, s \in Ids :
          ( /\ FinishStep(s, u)
            /\ users[u].some
            /\ recoveries[u].some
            /\ Cardinality(SlotsOf(users[u].val, s)) >= 2
            /\ \A k \in Slots \ SlotsOf(users[u].val, s) :
                   FlagOf(recoveries[u].val, k) = 0 )
          => /\ StatusOf(recoveries', u) # STATUS_FINALIZED
             /\ balances' = balances]_vars

\* C19 happens: an identity assigned to at least two slots has called
\* finish_recovery for a user whose round was Active.
C19_Witness ==
    /\ last.op = "finish_recovery"
    /\ last.pre = STATUS_ACTIVE
    /\ users[last.args[1]].some
    /\ Cardinality(SlotsOf(users[last.args[1]].val, last.caller)) >= 2
    /\ StatusOf(recoveries, last.args[1]) = STATUS_ACTIVE

\* C20: balances change only in a transfer or in a finish_recovery that
\* finalizes a round, and user records change only in a register_user.
C20_BalanceAndUserFrame ==
    [][/\ balances' # balances =>
             \/ last'.op = "transfer"
             \/ /\ last'.op = "finish_recovery"
                /\ StatusOf(recoveries, last'.args[1]) = STATUS_ACTIVE
                /\ StatusOf(recoveries', last'.args[1]) = STATUS_FINALIZED
       /\ users' # users => last'.op = "register_user"]_vars

\* C20 happens: after start_recovery made the round Active, the user has
\* transferred units away and holds less than the 3-unit reserve.
C20_Witness ==
    /\ last.op = "transfer"
    /\ last.ret = "Ok"
    /\ last.args[2] > 0
    /\ StatusOf(recoveries, last.caller) = STATUS_ACTIVE
    /\ balance_of(balances, last.caller) < 3

====
